---- MODULE Spec2Model ----
(***************************************************************************)
(* Model of the Spectrometer facade of src/spectrometer.py.                *)
(*                                                                         *)
(* The facade object has four fields (auto, experiment, experiment_name,   *)
(* ROI).  The vendor runtime it drives is represented by what the facade   *)
(* can observe through its experiment handle: the settings of the context, *)
(* the set of settings that exist in it, the custom region, the name of    *)
(* the loaded experiment, the names saved, the number of acquisitions and  *)
(* whether the worker process runs.  Every method call is one step; the    *)
(* vendor calls it made, the messages it printed, how it ended and what it *)
(* returned are kept for the last call.                                    *)
(***************************************************************************)
EXTENDS Integers, Sequences, FiniteSets, TLC

VARIABLES auto, experiment, experiment_name, ROI,
          settings, exists, customRegions, loaded, saved, acquired,
          alive, sessions,
          op, calls, printed, outcome, ret, nops

vars == <<auto, experiment, experiment_name, ROI,
          settings, exists, customRegions, loaded, saved, acquired,
          alive, sessions,
          op, calls, printed, outcome, ret, nops>>

\* Number of method calls in a run.
MaxOps == 3

----------------------------------------------------------------------------
\* Python values, tagged with their type.  A float is kept by its (whole)
\* numeric value; a str is a sequence of characters; a text is a string the
\* code never looks into.
PyNone == [kind |-> "None", val |-> 0]
PyInt(n) == [kind |-> "int", val |-> n]
PyFloat(n) == [kind |-> "float", val |-> n]
PyBool(b) == [kind |-> "bool", val |-> b]
PyStr(s) == [kind |-> "str", val |-> s]
PyText(t) == [kind |-> "text", val |-> t]
Handle(i) == [kind |-> "handle", val |-> i]
\* An argument the caller left out.
Omitted == [kind |-> "omitted", val |-> 0]
\* The value of a setting the facade has not written.
Unset == [kind |-> "unset", val |-> 0]

\* A parameter with a default value.
DefaultArg(a, d) == IF a.kind = "omitted" THEN d ELSE a

\* float(x) of a number.
float(x) == PyFloat(x.val)

----------------------------------------------------------------------------
\* The setting keys the facade uses.
GratingCenterWavelength == "SpectrometerSettings.GratingCenterWavelength"
Grating == "SpectrometerSettings.Grating"
ShutterTimingExposureTime == "CameraSettings.ShutterTimingExposureTime"
ReadoutControlRegionsOfInterestSelection ==
    "CameraSettings.ReadoutControlRegionsOfInterestSelection"
FileNameGenerationBaseFileName == "ExperimentSettings.FileNameGenerationBaseFileName"
FileNameGenerationAttachIncrement == "ExperimentSettings.FileNameGenerationAttachIncrement"
FileNameGenerationAttachDate == "ExperimentSettings.FileNameGenerationAttachDate"
FileNameGenerationAttachTime == "ExperimentSettings.FileNameGenerationAttachTime"

FileNameKeys == {FileNameGenerationBaseFileName, FileNameGenerationAttachIncrement,
                 FileNameGenerationAttachDate, FileNameGenerationAttachTime}
DeviceKeys == {GratingCenterWavelength, Grating, ShutterTimingExposureTime,
               ReadoutControlRegionsOfInterestSelection}
Keys == FileNameKeys \cup DeviceKeys

\* The grating descriptors.
MirrorDescriptor == PyText("[Mirror,1200][0][0]")
Descriptor550 == PyText("[550nm,900][1][0]")
Descriptor750 == PyText("[750nm,300][2][0]")

----------------------------------------------------------------------------
\* System.IO.Path.GetFileName: the characters after the last directory or
\* volume separator, the whole path when there is none.
Separators == {"\\", "/", ":"}

RECURSIVE LastSeparator(_, _)
LastSeparator(path, i) ==
    IF i = 0 THEN 0
    ELSE IF path[i] \in Separators THEN i
    ELSE LastSeparator(path, i - 1)

GetFileName_identity(path) == path

GetFileName(path) ==
    SubSeq(path, LastSeparator(path, Len(path)) + 1, Len(path))

----------------------------------------------------------------------------
\* The vendor calls a method makes, in order.
ExistsCall(setting, found) == [call |-> "Exists", setting |-> setting, result |-> found]
SetValueCall(setting, value) == [call |-> "SetValue", setting |-> setting, value |-> value]
VendorCall(name, arg) == [call |-> name, arg |-> arg]

\* The facade and the runtime at the start of a method call.
Self ==
    [auto |-> auto, experiment |-> experiment, experiment_name |-> experiment_name,
     ROI |-> ROI, settings |-> settings, exists |-> exists,
     customRegions |-> customRegions, loaded |-> loaded, saved |-> saved,
     acquired |-> acquired, alive |-> alive,
     sessions |-> sessions,
     calls |-> <<>>, printed |-> <<>>, outcome |-> "ok", ret |-> PyNone]

\* An exception leaves the method: the statements after it are not run.
Raise(s, exception) == [s EXCEPT !.outcome = exception]

\* Attribute lookup on the facade object: only the attributes __init__ sets
\* exist (names are case sensitive).
InstanceAttributes == {"auto", "experiment", "experiment_name", "ROI"}
AttributeError == [kind |-> "AttributeError", val |-> 0]
getattr(s, name) == IF name \in InstanceAttributes THEN s[name] ELSE AttributeError

----------------------------------------------------------------------------
\* Spectrometer.__init__
Init ==
    /\ auto = PyNone
    /\ experiment = PyNone
    /\ experiment_name = PyNone
    /\ ROI = PyNone
    /\ settings = [k \in Keys |-> Unset]
    /\ exists = {}
    /\ customRegions = Unset
    /\ loaded = Unset
    /\ saved = {}
    /\ acquired = 0
    /\ alive = FALSE
    /\ sessions = 0
    /\ op = [name |-> "__init__", args |-> <<>>]
    /\ calls = <<>>
    /\ printed = <<>>
    /\ outcome = "ok"
    /\ ret = PyNone
    /\ nops = 0

\* One method call, from the state it leaves.
Method(s, name, args) ==
    /\ nops < MaxOps
    /\ nops' = nops + 1
    /\ op' = [name |-> name, args |-> args]
    /\ auto' = s.auto
    /\ experiment' = s.experiment
    /\ experiment_name' = s.experiment_name
    /\ ROI' = s.ROI
    /\ settings' = s.settings
    /\ exists' = s.exists
    /\ customRegions' = s.customRegions
    /\ loaded' = s.loaded
    /\ saved' = s.saved
    /\ acquired' = s.acquired
    /\ alive' = s.alive
    /\ sessions' = s.sessions
    /\ calls' = s.calls
    /\ printed' = s.printed
    /\ outcome' = s.outcome
    /\ ret' = s.ret

----------------------------------------------------------------------------
\* Spectrometer.set_value
set_value_unguarded(s, setting, value) ==
    IF s.experiment.kind = "None" THEN Raise(s, "AttributeError")
    ELSE [s EXCEPT !.calls = Append(@, SetValueCall(setting, value)),
                   !.settings[setting] = value,
                   !.printed = Append(@, [msg |-> "set to", setting |-> setting,
                                          value |-> value])]

set_value_raising(s, setting, value) ==
    IF s.experiment.kind = "None" THEN Raise(s, "AttributeError")
    ELSE IF setting \in s.exists
    THEN [s EXCEPT !.calls = Append(Append(@, ExistsCall(setting, TRUE)),
                                    SetValueCall(setting, value)),
                   !.settings[setting] = value,
                   !.printed = Append(@, [msg |-> "set to", setting |-> setting,
                                          value |-> value])]
    ELSE Raise([s EXCEPT !.calls = Append(@, ExistsCall(setting, FALSE))], "KeyError")

set_value(s, setting, value) ==
    IF s.experiment.kind = "None" THEN Raise(s, "AttributeError")
    ELSE IF setting \in s.exists
    THEN [s EXCEPT !.calls = Append(Append(@, ExistsCall(setting, TRUE)),
                                    SetValueCall(setting, value)),
                   !.settings[setting] = value,
                   !.printed = Append(@, [msg |-> "set to", setting |-> setting,
                                          value |-> value])]
    ELSE [s EXCEPT !.calls = Append(@, ExistsCall(setting, FALSE)),
                   !.printed = Append(@, [msg |-> "Error in setting",
                                          setting |-> setting, value |-> value])]

\* A call of set_value as a statement of a method body.
CallSetValue(s, setting, value) ==
    IF s.outcome = "ok" THEN set_value(s, setting, value) ELSE s

\* Spectrometer.set_center_wavelength
set_center_wavelength(s, center_wave_length) ==
    CallSetValue(s, GratingCenterWavelength, center_wave_length)

\* Spectrometer.set_grating
set_grating_fixed(s, grating) ==
    LET g == DefaultArg(grating, PyInt(2))
    IN  IF g.val = 0 THEN CallSetValue(s, Grating, MirrorDescriptor)
        ELSE IF g.val = 1 THEN CallSetValue(s, Grating, Descriptor550)
        ELSE IF g.val = 2 THEN CallSetValue(s, Grating, Descriptor750)
        ELSE s

set_grating(s, grating) ==
    LET g == DefaultArg(grating, PyInt(2))
    IN  IF g.val = 0 THEN CallSetValue(s, Grating, MirrorDescriptor)
        ELSE IF g.val = 0 THEN CallSetValue(s, Grating, Descriptor550)
        ELSE IF g.val = 2 THEN CallSetValue(s, Grating, Descriptor750)
        ELSE s

\* Spectrometer.set_exposure_time
set_exposure_time(s, time) ==
    CallSetValue(s, ShutterTimingExposureTime, float(time))

\* Spectrometer.set_sensor_mode
set_sensor_mode(s, mode) ==
    CallSetValue(s, ReadoutControlRegionsOfInterestSelection,
                 float(DefaultArg(mode, PyFloat(4))))

\* Spectrometer.set_saved_filename
set_saved_filename(s, filename, increment, add_date, add_time) ==
    LET s1 == CallSetValue(s, FileNameGenerationBaseFileName,
                           PyStr(GetFileName(filename.val)))
        s2 == CallSetValue(s1, FileNameGenerationAttachIncrement,
                           DefaultArg(increment, PyBool(FALSE)))
        s3 == CallSetValue(s2, FileNameGenerationAttachDate,
                           DefaultArg(add_date, PyBool(FALSE)))
    IN  CallSetValue(s3, FileNameGenerationAttachTime,
                     DefaultArg(add_time, PyBool(FALSE)))

\* RegionOfInterest(x, y, width, height, xbinning, ybinning)
RegionOfInterest(x, y, width, height, xbinning, ybinning) ==
    [kind |-> "RegionOfInterest",
     val |-> [X |-> x.val, Y |-> y.val, Width |-> width.val, Height |-> height.val,
              XBinning |-> xbinning.val, YBinning |-> ybinning.val]]

\* Spectrometer.set_custom_ROI
set_custom_ROI_lowercase(s, x, y, width, height, xbinning, ybinning) ==
    LET xb == DefaultArg(xbinning, PyNone)
        yb == DefaultArg(ybinning, PyNone)
        regions == RegionOfInterest(x, y, width, height,
                                    IF xb.kind = "None" THEN width ELSE xb,
                                    IF yb.kind = "None" THEN height ELSE yb)
        target == getattr(s, "experiment")
    IN  IF target.kind \in {"AttributeError", "None"} THEN Raise(s, "AttributeError")
        ELSE [s EXCEPT !.calls = Append(@, VendorCall("SetCustomRegions", regions)),
                       !.customRegions = regions,
                       !.ret = regions]

set_custom_ROI(s, x, y, width, height, xbinning, ybinning) ==
    LET xb == DefaultArg(xbinning, PyNone)
        yb == DefaultArg(ybinning, PyNone)
        regions == RegionOfInterest(x, y, width, height,
                                    IF xb.kind = "None" THEN width ELSE xb,
                                    IF yb.kind = "None" THEN height ELSE yb)
        target == getattr(s, "Experiment")
    IN  IF target.kind \in {"AttributeError", "None"} THEN Raise(s, "AttributeError")
        ELSE [s EXCEPT !.calls = Append(@, VendorCall("SetCustomRegions", regions)),
                       !.customRegions = regions,
                       !.ret = regions]

\* Spectrometer.acquire
acquire_trigger_first(s, filename) ==
    LET s1 == IF s.experiment.kind = "None" THEN Raise(s, "AttributeError")
              ELSE [s EXCEPT !.calls = Append(@, VendorCall("Acquire", PyNone)),
                             !.acquired = @ + 1]
    IN  IF s1.outcome # "ok" THEN s1
        ELSE set_saved_filename(s1, filename, Omitted, Omitted, Omitted)

acquire(s, filename) ==
    LET s1 == set_saved_filename(s, filename, Omitted, Omitted, Omitted)
    IN  IF s1.outcome # "ok" THEN s1
        ELSE IF s1.experiment.kind = "None" THEN Raise(s1, "AttributeError")
        ELSE [s1 EXCEPT !.calls = Append(@, VendorCall("Acquire", PyNone)),
                        !.acquired = @ + 1]

\* Spectrometer.save_experiment
save_experiment_keeps_name(s, name) ==
    LET n == DefaultArg(name, PyNone)
    IN  IF s.experiment.kind = "None" THEN Raise(s, "AttributeError")
        ELSE [s EXCEPT !.calls = Append(@, VendorCall("SaveAs",
                                            IF n.kind # "None" THEN n
                                            ELSE s.experiment_name)),
                       !.saved = @ \cup {IF n.kind # "None" THEN n
                                         ELSE s.experiment_name}]

save_experiment(s, name) ==
    LET n == DefaultArg(name, PyNone)
        s1 == IF n.kind # "None" THEN [s EXCEPT !.experiment_name = n] ELSE s
    IN  IF s1.experiment.kind = "None" THEN Raise(s1, "AttributeError")
        ELSE [s1 EXCEPT !.calls = Append(@, VendorCall("SaveAs", s1.experiment_name)),
                        !.saved = @ \cup {s1.experiment_name}]

\* Spectrometer.disconnect
disconnect(s) ==
    [s EXCEPT !.calls = Append(@, VendorCall("taskkill", PyText("AddInProcess.exe"))),
              !.alive = FALSE,
              !.printed = Append(@, [msg |-> "Lightfield disconnected."])]

\* Spectrometer.launch_experiment.  fault names the vendor call that throws
\* ("none": no call throws); context is the set of settings that exist in the
\* experiment the runtime opens.
launch_experiment_propagating(s, experimentArg, interfaceArg, fault, context) ==
    LET i == DefaultArg(interfaceArg, PyBool(TRUE))
    IN  IF fault = "none"
        THEN LET e == DefaultArg(experimentArg, PyNone)
                 name == IF e.kind = "None" THEN s.experiment_name ELSE e
             IN  [s EXCEPT !.calls = <<VendorCall("Automation", i)>>,
                           !.auto = Handle(s.sessions + 1),
                           !.sessions = @ + 1,
                           !.alive = TRUE,
                           !.experiment = Handle(s.sessions + 1),
                           !.settings = [k \in Keys |-> Unset],
                           !.exists = context,
                           !.customRegions = Unset,
                           !.loaded = IF e.kind = "None" THEN PyText("last experiment") ELSE e,
                           !.experiment_name = name,
                           !.printed = <<[msg |-> "Success", name |-> name]>>]
        ELSE Raise([s EXCEPT !.calls = <<VendorCall("Automation", i)>>], "Exception")

launch_experiment(s, experimentArg, interfaceArg, fault, context) ==
    LET e == DefaultArg(experimentArg, PyNone)
        i == DefaultArg(interfaceArg, PyBool(TRUE))
        \* self.auto = Automation(interface, List[String]())
        s1 == LET c == [s EXCEPT !.calls = Append(@, VendorCall("Automation", i))]
              IN  IF fault = "Automation" THEN Raise(c, "Exception")
                  ELSE [c EXCEPT !.auto = Handle(s.sessions + 1),
                                 !.sessions = @ + 1,
                                 !.alive = TRUE]
        \* self.experiment = self.auto.LightFieldApplication.Experiment
        s2 == IF s1.outcome # "ok" THEN s1
              ELSE LET c == [s1 EXCEPT !.calls = Append(@, VendorCall("Experiment", PyNone))]
                   IN  IF fault = "Experiment" THEN Raise(c, "Exception")
                       ELSE [c EXCEPT !.experiment = Handle(s1.sessions),
                                      !.settings = [k \in Keys |-> Unset],
                                      !.exists = context,
                                      !.customRegions = Unset,
                                      !.loaded = PyText("last experiment")]
        \* self.experiment.Load(experiment)
        s3 == IF s2.outcome # "ok" \/ e.kind = "None" THEN s2
              ELSE LET c == [s2 EXCEPT !.calls = Append(@, VendorCall("Load", e))]
                   IN  IF fault = "Load" THEN Raise(c, "Exception")
                       ELSE [c EXCEPT !.loaded = e]
        \* self.experiment_name = self.experiment.get_Name()
        s4 == IF s3.outcome # "ok" \/ e.kind = "None" THEN s3
              ELSE LET c == [s3 EXCEPT !.calls = Append(@, VendorCall("get_Name", PyNone))]
                   IN  IF fault = "get_Name" THEN Raise(c, "Exception")
                       ELSE [c EXCEPT !.experiment_name = s3.loaded]
    IN  IF s4.outcome = "ok"
        THEN [s4 EXCEPT !.printed = Append(@, [msg |-> "Success",
                                               name |-> s4.experiment_name])]
        ELSE [s4 EXCEPT !.outcome = "ok",
                        !.printed = Append(@, [msg |-> "err", name |-> PyText(fault)])]

----------------------------------------------------------------------------
\* The arguments the methods are called with.
Wavelengths == {PyInt(500), PyFloat(600)}
GratingArgs == {Omitted, PyInt(0), PyInt(1), PyInt(2), PyInt(3)}
ExposureArgs == {PyInt(10), PyFloat(20)}
ModeArgs == {Omitted, PyInt(1)}
FileNames == {PyStr(<<"C", ":", "\\", "d", "\\", "r">>),
              PyStr(<<"d", "/", "s">>),
              PyStr(<<"r">>)}
FlagArgs == {<<Omitted, Omitted, Omitted>>,
             <<PyBool(TRUE), PyBool(FALSE), PyBool(TRUE)>>,
             <<PyBool(FALSE), PyBool(TRUE), Omitted>>}
RoiArgs == {<<PyInt(0), PyInt(0), PyInt(512), PyInt(512), Omitted, Omitted>>,
            <<PyInt(0), PyInt(8), PyInt(512), PyInt(256), Omitted, Omitted>>,
            <<PyInt(0), PyInt(0), PyInt(512), PyInt(512), PyInt(1), PyInt(2)>>}
ExperimentArgs == {Omitted, PyText("expA")}
SaveArgs == {Omitted, PyText("expA"), PyText("expB")}
DirectValues == {PyInt(7), PyBool(TRUE)}
InterfaceArgs == {Omitted, PyBool(FALSE)}
Faults == {"none", "Automation", "Experiment", "Load", "get_Name"}
\* The vendor calls launch_experiment makes for an argument.
FaultsOf(experimentArg) ==
    IF DefaultArg(experimentArg, PyNone).kind = "None"
    THEN {"none", "Automation", "Experiment"}
    ELSE Faults
\* The experiments the runtime can open, by the settings that exist in them.
Contexts == {FileNameKeys \cup DeviceKeys, {},
             DeviceKeys \cup {FileNameGenerationBaseFileName, FileNameGenerationAttachDate}}
AllContexts == {F \cup D : F \in SUBSET FileNameKeys, D \in {{}, DeviceKeys}}

----------------------------------------------------------------------------
LaunchExperiment ==
    \E e \in ExperimentArgs, i \in InterfaceArgs, c \in Contexts :
        \E fault \in FaultsOf(e) :
            Method(launch_experiment(Self, e, i, fault, c),
                   "launch_experiment", <<e, i, PyText(fault)>>)

LaunchAnyExperiment ==
    \E e \in ExperimentArgs, c \in AllContexts :
        Method(launch_experiment(Self, e, Omitted, "none", c),
               "launch_experiment", <<e, Omitted, PyText("none")>>)

SetValue ==
    \E k \in Keys, v \in DirectValues :
        Method(CallSetValue(Self, k, v), "set_value", <<k, v>>)

SetCenterWavelength ==
    \E w \in Wavelengths :
        Method(set_center_wavelength(Self, w), "set_center_wavelength", <<w>>)

SetGrating ==
    \E g \in GratingArgs : Method(set_grating(Self, g), "set_grating", <<g>>)

SetExposureTime ==
    \E t \in ExposureArgs : Method(set_exposure_time(Self, t), "set_exposure_time", <<t>>)

SetSensorMode ==
    \E m \in ModeArgs : Method(set_sensor_mode(Self, m), "set_sensor_mode", <<m>>)

SetSavedFilename ==
    \E f \in FileNames, flags \in FlagArgs :
        Method(set_saved_filename(Self, f, flags[1], flags[2], flags[3]),
               "set_saved_filename", <<f, flags[1], flags[2], flags[3]>>)

SetCustomROI ==
    \E r \in RoiArgs :
        Method(set_custom_ROI(Self, r[1], r[2], r[3], r[4], r[5], r[6]),
               "set_custom_ROI", r)

Acquire ==
    \E f \in FileNames : Method(acquire(Self, f), "acquire", <<f>>)

SaveExperiment ==
    \E n \in SaveArgs : Method(save_experiment(Self, n), "save_experiment", <<n>>)

Disconnect == Method(disconnect(Self), "disconnect", <<>>)

Next ==
    \/ LaunchExperiment
    \/ SetValue
    \/ SetCenterWavelength
    \/ SetGrating
    \/ SetExposureTime
    \/ SetSensorMode
    \/ SetSavedFilename
    \/ SetCustomROI
    \/ Acquire
    \/ SaveExperiment
    \/ Disconnect

Spec == Init /\ [][Next]_vars

\* The file name methods over every combination of file name settings.
NextFiles ==
    \/ LaunchAnyExperiment
    \/ SetSavedFilename
    \/ Acquire

SpecFiles == Init /\ [][NextFiles]_vars

----------------------------------------------------------------------------
\* The calls of a trace that satisfy a test, in order.
RECURSIVE Select(_, _)
Select(trace, call) ==
    IF trace = <<>> THEN <<>>
    ELSE IF Head(trace).call = call THEN <<Head(trace)>> \o Select(Tail(trace), call)
    ELSE Select(Tail(trace), call)

SetValues(trace) == Select(trace, "SetValue")
ExistsChecks(trace) == Select(trace, "Exists")
Opened == experiment.kind = "handle"
FlagOf(a) == IF a.kind = "omitted" THEN PyBool(FALSE) ELSE a

\* C1: set_value(key, value) on a context where key does not exist leaves
\* every setting as it was, makes no SetValue call and prints the error
\* message; where key exists it sets that key to the value, leaves every
\* other key as it was and prints the success message.
C1_GuardedWrite ==
    [][(op'.name = "set_value" /\ Opened) =>
        LET k == op'.args[1]
            v == op'.args[2]
        IN  /\ outcome' = "ok"
            /\ k \notin exists =>
                /\ settings' = settings
                /\ SetValues(calls') = <<>>
                /\ Len(printed') = 1 /\ printed'[1].msg = "Error in setting"
            /\ k \in exists =>
                /\ settings'[k] = v
                /\ \A j \in Keys \ {k} : settings'[j] = settings[j]
                /\ SetValues(calls') = <<SetValueCall(k, v)>>
                /\ Len(printed') = 1 /\ printed'[1].msg = "set to"]_vars

C1_Witness ==
    /\ op.name = "set_value" /\ Opened
    /\ op.args[1] \in exists
    /\ settings[op.args[1]] = op.args[2]
    /\ \E j \in Keys : j \notin exists
    /\ Len(printed) = 1 /\ printed[1].msg = "set to"

\* C2: set_grating(0) writes the mirror descriptor to the grating setting,
\* set_grating(2) (also the default) writes the 300 g/mm descriptor, and
\* every other code, 1 included, makes no vendor call, changes no setting and
\* raises nothing; the 900 g/mm descriptor is never the value of a setting.
C2_GratingMapping ==
    [][op'.name = "set_grating" =>
        LET g == DefaultArg(op'.args[1], PyInt(2)).val
        IN  /\ (g = 0 /\ Opened /\ Grating \in exists) =>
                /\ settings' = [settings EXCEPT ![Grating] = MirrorDescriptor]
                /\ SetValues(calls') = <<SetValueCall(Grating, MirrorDescriptor)>>
            /\ (g = 2 /\ Opened /\ Grating \in exists) =>
                /\ settings' = [settings EXCEPT ![Grating] = Descriptor750]
                /\ SetValues(calls') = <<SetValueCall(Grating, Descriptor750)>>
            /\ g \notin {0, 2} =>
                /\ calls' = <<>>
                /\ printed' = <<>>
                /\ settings' = settings
                /\ outcome' = "ok"
            /\ \A k \in Keys : settings'[k] # Descriptor550]_vars

C2_Witness ==
    /\ op.name = "set_grating" /\ op.args[1] = PyInt(1)
    /\ Opened /\ Grating \in exists
    /\ calls = <<>> /\ outcome = "ok"

\* C3: on an opened facade acquire(filename) checks the four file name
\* settings once each, in order, writes the flags as false, then makes the
\* acquisition call exactly once, as the last call, whichever of the file
\* name settings exist.
C3_AcquireSequencing ==
    [][(op'.name = "acquire" /\ Opened) =>
        /\ outcome' = "ok"
        /\ Len(Select(calls', "Acquire")) = 1
        /\ calls'[Len(calls')].call = "Acquire"
        /\ acquired' = acquired + 1
        /\ [i \in 1..4 |-> ExistsChecks(calls')[i].setting] =
               <<FileNameGenerationBaseFileName, FileNameGenerationAttachIncrement,
                 FileNameGenerationAttachDate, FileNameGenerationAttachTime>>
        /\ Len(ExistsChecks(calls')) = 4
        /\ \A k \in (FileNameKeys \ {FileNameGenerationBaseFileName}) \cap exists :
               settings'[k] = PyBool(FALSE)
        /\ Len(SetValues(calls')) = Cardinality(FileNameKeys \cap exists)]_vars

C3_Witness ==
    /\ op.name = "acquire" /\ Opened
    /\ acquired = 1
    /\ FileNameKeys \cap exists = {}
    /\ Len(calls) = 5 /\ calls[5].call = "Acquire"

\* A sequence is a suffix of another.
IsSuffix(b, name) ==
    /\ Len(b) <= Len(name)
    /\ b = SubSeq(name, Len(name) - Len(b) + 1, Len(name))

\* C4: with the four file name settings in the context, set_saved_filename
\* sets the base name to the part of name after its last separator and the
\* three attach settings to the flags passed (false when omitted), and
\* changes no other setting.
C4_FilenameSanitization ==
    [][(op'.name = "set_saved_filename" /\ Opened /\ FileNameKeys \subseteq exists) =>
        LET name == op'.args[1].val
            base == settings'[FileNameGenerationBaseFileName]
        IN  /\ base.kind = "str"
            /\ IsSuffix(base.val, name)
            /\ \A i \in 1..Len(base.val) : base.val[i] \notin Separators
            /\ \/ Len(base.val) = Len(name)
               \/ name[Len(name) - Len(base.val)] \in Separators
            /\ settings'[FileNameGenerationAttachIncrement] = FlagOf(op'.args[2])
            /\ settings'[FileNameGenerationAttachDate] = FlagOf(op'.args[3])
            /\ settings'[FileNameGenerationAttachTime] = FlagOf(op'.args[4])
            /\ \A k \in Keys \ FileNameKeys : settings'[k] = settings[k]
            /\ customRegions' = customRegions]_vars

C4_Witness ==
    /\ op.name = "set_saved_filename" /\ Opened /\ FileNameKeys \subseteq exists
    /\ op.args[1] = PyStr(<<"C", ":", "\\", "d", "\\", "r">>)
    /\ settings[FileNameGenerationBaseFileName] = PyStr(<<"r">>)
    /\ settings[FileNameGenerationAttachIncrement] = PyBool(TRUE)
    /\ settings[FileNameGenerationAttachDate] = PyBool(FALSE)

\* C5: on an opened facade set_custom_ROI with the binning left out makes the
\* region with XBinning = width and YBinning = height the custom region of
\* the context and returns it.
C5_RoiBinningDefault ==
    (op.name = "set_custom_ROI" /\ Opened
        /\ op.args[5].kind = "omitted" /\ op.args[6].kind = "omitted") =>
        LET region == RegionOfInterest(op.args[1], op.args[2], op.args[3],
                                       op.args[4], op.args[3], op.args[4])
        IN  /\ outcome = "ok"
            /\ customRegions = region
            /\ ret = region

\* C6: when a vendor call inside launch_experiment throws, the method
\* returns normally, prints the error and no success message, and the fields
\* assigned before the failing call keep their new values while the others
\* keep their old ones.
C6_LaunchFailureSwallowed ==
    [][(op'.name = "launch_experiment" /\ op'.args[3].val # "none") =>
        LET fault == op'.args[3].val
        IN  /\ outcome' = "ok"
            /\ Len(printed') = 1 /\ printed'[1].msg = "err"
            /\ experiment_name' = experiment_name
            /\ ROI' = ROI
            /\ fault = "Automation" => (auto' = auto /\ experiment' = experiment)
            /\ fault = "Experiment" =>
                (auto' = Handle(sessions + 1) /\ experiment' = experiment)
            /\ fault \in {"Load", "get_Name"} =>
                (auto' = Handle(sessions + 1) /\ experiment' = Handle(sessions + 1))]_vars

C6_Witness ==
    /\ op.name = "launch_experiment" /\ op.args[3].val = "Experiment"
    /\ auto.kind = "handle"
    /\ experiment = PyNone
    /\ experiment_name = PyNone
    /\ outcome = "ok"

\* The operations of the facade that configure or trigger an acquisition.
FacadeOperations == {"set_center_wavelength", "set_grating", "set_exposure_time",
                     "set_saved_filename", "set_sensor_mode", "set_custom_ROI",
                     "acquire"}

\* The value the SetValue calls of a trace leave in a setting.
RECURSIVE Written(_, _, _)
Written(trace, k, old) ==
    IF trace = <<>> THEN old
    ELSE Written(Tail(trace), k,
                 IF Head(trace).call = "SetValue" /\ Head(trace).setting = k
                 THEN Head(trace).value ELSE old)

\* C7: over the facade operations, every change of the context is a SetValue
\* call that directly follows an Exists call for the same key that returned
\* true: the custom region and the set of existing settings do not change,
\* and the settings after the call are those the SetValue calls wrote.
C7_SingleChokepoint ==
    [][op'.name \in FacadeOperations =>
        /\ customRegions' = customRegions
        /\ exists' = exists
        /\ loaded' = loaded
        /\ \A i \in 1..Len(calls') :
              /\ calls'[i].call # "SetCustomRegions"
              /\ calls'[i].call = "SetValue" =>
                    /\ i > 1
                    /\ calls'[i - 1] = ExistsCall(calls'[i].setting, TRUE)
                    /\ calls'[i].setting \in exists
        /\ \A k \in Keys : settings'[k] = Written(calls', k, settings[k])
        /\ \A k \in Keys \ exists : settings'[k] = settings[k]]_vars

C7_Witness ==
    /\ op.name = "set_saved_filename" /\ Opened
    /\ Len(SetValues(calls)) = 2
    /\ Len(ExistsChecks(calls)) = 4
    /\ settings[FileNameGenerationAttachIncrement] = Unset
    /\ settings[FileNameGenerationAttachDate] = PyBool(TRUE)

\* C8: set_saved_filename checks the four file name settings in the order
\* base name, increment, date, time whichever of them exist; it writes those
\* that exist, leaves those that do not, prints an error for each of these
\* and returns normally.
C8_NonAtomicFilename ==
    [][(op'.name = "set_saved_filename" /\ Opened) =>
        /\ outcome' = "ok"
        /\ Len(ExistsChecks(calls')) = 4
        /\ [i \in 1..4 |-> ExistsChecks(calls')[i].setting] =
               <<FileNameGenerationBaseFileName, FileNameGenerationAttachIncrement,
                 FileNameGenerationAttachDate, FileNameGenerationAttachTime>>
        /\ \A i \in 1..4 :
               ExistsChecks(calls')[i].result = (ExistsChecks(calls')[i].setting \in exists)
        /\ {SetValues(calls')[i].setting : i \in 1..Len(SetValues(calls'))} =
               FileNameKeys \cap exists
        /\ Len(SetValues(calls')) = Cardinality(FileNameKeys \cap exists)
        /\ \A k \in Keys \ (FileNameKeys \cap exists) : settings'[k] = settings[k]
        /\ FileNameGenerationBaseFileName \in exists =>
               /\ settings'[FileNameGenerationBaseFileName].kind = "str"
               /\ IsSuffix(settings'[FileNameGenerationBaseFileName].val, op'.args[1].val)
        /\ FileNameGenerationAttachIncrement \in exists =>
               settings'[FileNameGenerationAttachIncrement] = FlagOf(op'.args[2])
        /\ FileNameGenerationAttachDate \in exists =>
               settings'[FileNameGenerationAttachDate] = FlagOf(op'.args[3])
        /\ FileNameGenerationAttachTime \in exists =>
               settings'[FileNameGenerationAttachTime] = FlagOf(op'.args[4])
        /\ Cardinality({i \in 1..Len(printed') : printed'[i].msg = "Error in setting"}) =
               Cardinality(FileNameKeys \ exists)]_vars

C8_Witness ==
    /\ op.name = "set_saved_filename" /\ Opened
    /\ FileNameKeys \cap exists =
           {FileNameGenerationAttachIncrement, FileNameGenerationAttachTime}
    /\ settings[FileNameGenerationBaseFileName] = Unset
    /\ settings[FileNameGenerationAttachIncrement] = PyBool(TRUE)
    /\ settings[FileNameGenerationAttachDate] = Unset
    /\ settings[FileNameGenerationAttachTime] = PyBool(TRUE)
    /\ outcome = "ok"

\* The name a successful launch or a save leaves as the active name.
NameTracked ==
    /\ (op'.name = "launch_experiment"
            /\ DefaultArg(op'.args[1], PyNone).kind # "None"
            /\ op'.args[3].val = "none") => experiment_name' = op'.args[1]
    /\ (op'.name = "save_experiment" /\ op'.args[1].kind # "omitted") =>
            experiment_name' = op'.args[1]
    /\ ~ \/ (op'.name = "launch_experiment"
                /\ DefaultArg(op'.args[1], PyNone).kind # "None"
                /\ op'.args[3].val = "none")
         \/ (op'.name = "save_experiment" /\ op'.args[1].kind # "omitted")
       => experiment_name' = experiment_name

\* C9 as stated: save_experiment(name) makes name the active name and saves
\* under it, save_experiment() saves under the active name, which is the one
\* set by the last successful named launch or named save.
C9_SavePersistsAlways ==
    [][/\ NameTracked
       /\ op'.name = "save_experiment" =>
            /\ calls' = <<VendorCall("SaveAs", experiment_name')>>
            /\ experiment_name' \in saved'
            /\ outcome' = "ok"]_vars

\* C9 amended: the active name is the one set by the last successful named
\* launch or by the last named save; save_experiment saves under the active
\* name when the facade holds an experiment handle, and without one it
\* raises AttributeError after recording the name and saves nothing.
C9_ActiveNameTracking ==
    [][/\ NameTracked
       /\ (op'.name = "save_experiment" /\ Opened) =>
            /\ calls' = <<VendorCall("SaveAs", experiment_name')>>
            /\ saved' = saved \cup {experiment_name'}
            /\ outcome' = "ok"
       /\ (op'.name = "save_experiment" /\ ~Opened) =>
            /\ calls' = <<>>
            /\ saved' = saved
            /\ outcome' = "AttributeError"]_vars

C9_Witness ==
    /\ op.name = "save_experiment" /\ op.args[1].kind = "omitted"
    /\ Opened
    /\ experiment_name = PyText("expB")
    /\ calls = <<VendorCall("SaveAs", PyText("expB"))>>
    /\ loaded = PyText("expA")

\* The setters that go through set_value with a setting to write.
WritingCall(o) ==
    \/ o.name \in {"set_center_wavelength", "set_exposure_time", "set_sensor_mode",
                   "set_saved_filename", "acquire"}
    \/ o.name = "set_grating" /\ DefaultArg(o.args[1], PyInt(2)).val \in {0, 2}

\* C10: disconnect kills the worker process and changes no field of the
\* facade; after it, on a facade that holds an experiment handle, every
\* setter (set_custom_ROI included) and acquire is not rejected: it returns
\* normally after making its calls on the handle.
C10_LifecycleNotEnforced ==
    [][/\ op'.name = "disconnect" =>
            /\ auto' = auto
            /\ experiment' = experiment
            /\ experiment_name' = experiment_name
            /\ ROI' = ROI
            /\ alive' = FALSE
            /\ calls' = <<VendorCall("taskkill", PyText("AddInProcess.exe"))>>
            /\ outcome' = "ok"
       /\ (~alive /\ Opened /\ WritingCall(op')) =>
            /\ outcome' = "ok"
            /\ calls' # <<>>
            /\ calls'[1].call = "Exists"
            /\ Len(SetValues(calls')) =
                  Cardinality({i \in 1..Len(ExistsChecks(calls')) :
                                  ExistsChecks(calls')[i].result})
            /\ op'.name = "acquire" => acquired' = acquired + 1
       /\ (~alive /\ Opened /\ op'.name = "set_custom_ROI") =>
            /\ outcome' = "ok"
            /\ Len(calls') = 1
            /\ calls'[1].call = "SetCustomRegions"]_vars

====
